---- MODULE Spec2Model ----
(***************************************************************************)
(* Model of the timeseries forecast plugin's data and forecast code:        *)
(*   dku_io_utils/dku_checks_utils.py     time column continuity checks    *)
(*   dku_io_utils/recipe_config_loading.py  training parameters loading    *)
(*   gluonts_forecasts/gluon_dataset.py   GluonDataset.create_list_dataset *)
(*   gluonts_forecasts/utils.py           add_future_external_features     *)
(*   gluonts_forecasts/trained_model.py   TrainedModel, predict()          *)
(*                                                                         *)
(* Time is counted in ticks (one tick = one day).  A month is MonthLen     *)
(* ticks long and ends on the multiples of MonthLen, a year is             *)
(* MonthsPerYear months long.  Cell values of target and feature columns   *)
(* are symbolic: the cell of column c in row i of a table is <<src, c, i>>,*)
(* so that any reordering, truncation or mix-up of values is visible.      *)
(***************************************************************************)
EXTENDS Integers, Sequences, FiniteSets, TLC

VARIABLES phase, chk, params, ds, future, aligned, tm

vars == <<phase, chk, params, ds, future, aligned, tm>>

----------------------------------------------------------------------------
(* Bounds of the model *)

MaxWall == 4
MaxCol == 3
MonthLen == 2
MonthsPerYear == 2

----------------------------------------------------------------------------
(* Generic helpers *)

Range(s) == {s[i] : i \in 1..Len(s)}

SeqsUpTo(S, n) == UNION {[1..k -> S] : k \in 0..n}

Min(a, b) == IF a < b THEN a ELSE b

Max(a, b) == IF a > b THEN a ELSE b

----------------------------------------------------------------------------
(* pandas frequencies and date_range *)

Units == {"D", "M", "Y"}

Steps == {"1", "2"}

\* int(step) of the frequency string "{step}{unit}"
StepValue(step) == IF step = "1" THEN 1 ELSE 2

\* "{}{}".format(time_granularity_step, time_granularity_unit)
FormatFrequency(step, unit) == [step |-> step, unit |-> unit]

\* ticks between two consecutive period ends of the unit
UnitLen(unit) ==
    CASE unit = "D" -> 1
      [] unit = "M" -> MonthLen
      [] unit = "Y" -> MonthLen * MonthsPerYear

\* ticks between two consecutive points of the frequency
Stride(frequency) == StepValue(frequency.step) * UnitLen(frequency.unit)

\* offset.rollforward: the first period end at or after t (t itself for 'D')
RollForward(t, unit) == ((t + UnitLen(unit) - 1) \div UnitLen(unit)) * UnitLen(unit)

\* offset.rollback: the last period end at or before t
RollBack(t, unit) == (t \div UnitLen(unit)) * UnitLen(unit)

\* pd.date_range(start=, end=, freq=)
DateRangeEnd(start, end, frequency) ==
    LET s0 == RollForward(start, frequency.unit)
        e0 == RollBack(end, frequency.unit)
        n  == IF e0 < s0 THEN 0 ELSE ((e0 - s0) \div Stride(frequency)) + 1
    IN  [i \in 1..n |-> s0 + (i - 1) * Stride(frequency)]

\* pd.date_range(start=, periods=, freq=)
DateRangePeriods(start, periods, frequency) ==
    LET s0 == RollForward(start, frequency.unit)
    IN  [i \in 1..periods |-> s0 + (i - 1) * Stride(frequency)]

----------------------------------------------------------------------------
(* dku_checks_utils.py *)

\* A time column: its representation (naive datetimes, timezone-aware
\* datetimes, strings) and the wall-clock tick of each row.
Representations == {"naive", "aware", "string"}

TimeColumns ==
    {[rep |-> r, walls |-> w] : r \in Representations, w \in SeqsUpTo(0..MaxWall, MaxCol)}

\* pd.to_datetime(column).dt.tz_localize(tz=None): strings are parsed, the
\* timezone is dropped, the wall-clock time is kept
ToNaiveDatetime(column) == [rep |-> "naive", walls |-> column.walls]

\* line 18: the converted column is assigned back into the caller's dataframe
AssignTimeColumn(column) == ToNaiveDatetime(column)

\* faulty variant: only the lengths are compared
ContinuousTest_lengthOnly(walls, frequency) ==
    LET date_range_df == DateRangeEnd(walls[1], walls[Len(walls)], frequency)
    IN  Len(date_range_df) = Len(walls)

\* check_continuous_time_column: [result, column] where column is the
\* dataframe's time column after the call.  result is "IndexError" when
\* .iloc[0] is taken of an empty column.
ContinuousTest(walls, frequency) ==
    LET date_range_df == DateRangeEnd(walls[1], walls[Len(walls)], frequency)
    IN  IF Len(date_range_df) # Len(walls) \/ walls # date_range_df
        THEN FALSE ELSE TRUE

check_continuous_time_column(column, unit, step) ==
    LET after     == AssignTimeColumn(column)
        frequency == FormatFrequency(step, unit)
    IN  IF Len(after.walls) = 0
        THEN [result |-> "IndexError", column |-> after]
        ELSE [result |-> IF ContinuousTest(after.walls, frequency)
                         THEN "continuous" ELSE "irregular",
              column |-> after]

\* assert_continuous_time_column: the exception raised ("none" if it returns)
\* and the parts of its message
assert_continuous_time_column(column, unit, step) ==
    LET c == check_continuous_time_column(column, unit, step)
    IN  IF c.result = "IndexError"
        THEN [raised |-> "IndexError", frequency |-> FormatFrequency(step, unit),
              period_end |-> FALSE, unit_name |-> "", column |-> c.column]
        ELSE IF c.result = "irregular"
        THEN [raised |-> "ValueError", frequency |-> FormatFrequency(step, unit),
              period_end |-> unit \in {"M", "Y"},
              unit_name |-> IF unit \in {"M", "Y"}
                            THEN (IF step = "M" THEN "Month" ELSE "Year")
                            ELSE "",
              column |-> c.column]
        ELSE [raised |-> "none", frequency |-> FormatFrequency(step, unit),
              period_end |-> FALSE, unit_name |-> "", column |-> c.column]

----------------------------------------------------------------------------
(* Tables *)

MaxTime == 2
MaxIdValue == 1
MaxRows == 3

TIME_COLUMN == "date"

\* A row of the training table: the tick of its time column and the values
\* of its two candidate identifier columns.  The identifier value 0 stands
\* for the values Python treats as false (0, False, ''), any other value
\* for one it treats as true.
Rows == [t : 0..MaxTime, store : 0..MaxIdValue, item : 0..MaxIdValue]

Tables == SeqsUpTo(Rows, MaxRows)

IdentifierChoices == {<<>>, <<"store">>, <<"store", "item">>}

TargetChoices == {<<>>, <<"sales">>, <<"sales", "returns">>}

FeatureChoices == {<<>>, <<"promo">>}

TableColumns == {TIME_COLUMN, "store", "item", "sales", "returns", "promo"}

\* the value of column c in row i of table src
Cell(src, c, i) == <<src, c, i>>

\* Optional arguments (None or a value)
None == [some |-> FALSE, v |-> 0]

Some(x) == [some |-> TRUE, v |-> x]

\* A dataframe is a table and the indexes of the rows it holds, in order
AllRows(table) == [i \in 1..Len(table) |-> i]

TimesOf(table, idx) == [j \in 1..Len(idx) |-> table[idx[j]].t]

\* series.iloc[:length] for length None, negative or positive
ILocStop(n, length) ==
    IF ~length.some THEN n
    ELSE IF length.v < 0 THEN Max(n + length.v, 0)
    ELSE Min(length.v, n)

ILoc(s, length) == SubSeq(s, 1, ILocStop(Len(s), length))

----------------------------------------------------------------------------
(* Time Grid Validator (gluonts_forecasts.utils.assert_time_column_valid,   *)
(* imported by gluon_dataset.py): the sequence must be the regular grid     *)
(* stepping from its first timestamp (or the expected start) at the         *)
(* frequency for its length (or the expected periods).  TRUE when valid.    *)

assert_time_column_valid(times, frequency, start_date, periods) ==
    LET n == IF periods.some THEN periods.v ELSE Len(times)
    IN  IF ~start_date.some /\ Len(times) = 0
        THEN n = 0
        ELSE LET s == IF start_date.some THEN start_date.v ELSE times[1]
             IN  times = DateRangePeriods(s, n, frequency)

----------------------------------------------------------------------------
(* gluon_dataset.py *)

NoKey == [kind |-> "None", vals |-> <<>>]

\* the key pandas' groupby gives a group: the value itself for one grouping
\* column, the tuple of values for several
GroupKey(names, row) ==
    [kind |-> IF Len(names) > 1 THEN "tuple" ELSE "scalar",
     vals |-> [i \in 1..Len(names) |-> row[names[i]]]]

\* Python's truth value of a group key
Truthy(key) ==
    CASE key.kind = "None"   -> FALSE
      [] key.kind = "tuple"  -> Len(key.vals) > 0
      [] key.kind = "scalar" -> key.vals[1] # 0

LexLess(a, b) ==
    \E i \in 1..Len(a) :
        /\ a[i] < b[i]
        /\ \A j \in 1..(i - 1) : a[j] = b[j]

RECURSIVE SortKeys(_)
SortKeys(keys) ==
    IF keys = {} THEN <<>>
    ELSE LET m == CHOOSE k \in keys : \A o \in keys \ {k} : LexLess(k.vals, o.vals)
         IN  <<m>> \o SortKeys(keys \ {m})

RECURSIVE SelectIdx(_, _, _, _)
SelectIdx(table, names, key, i) ==
    IF i > Len(table) THEN <<>>
    ELSE (IF GroupKey(names, table[i]) = key THEN <<i>> ELSE <<>>)
         \o SelectIdx(table, names, key, i + 1)

\* dataframe.groupby(names): the groups in key order, each with its rows in
\* table order
GroupBy(table, names) ==
    LET keys == SortKeys({GroupKey(names, table[i]) : i \in 1..Len(table)})
    IN  [g \in 1..Len(keys) |-> [key |-> keys[g], idx |-> SelectIdx(table, names, keys[g], 1)]]

\* faulty variant: the sign of the slice bound is lost
SliceLength_positive(cut_length) ==
    IF cut_length.some /\ cut_length.v # 0 THEN Some(cut_length.v) ELSE None

\* line 45: length = -cut_length if cut_length else None
SliceLength(cut_length) ==
    IF cut_length.some /\ cut_length.v # 0 THEN Some(0 - cut_length.v) ELSE None

\* lines 110-115: the identifiers dictionary, as its (name, value) items in
\* insertion order; <<>> stands for "no identifiers key"
IdentifiersMap(names, identifiers_values) ==
    IF Len(names) > 1
    THEN [i \in 1..Len(names) |-> <<names[i], identifiers_values.vals[i]>>]
    ELSE <<<<names[1], identifiers_values.vals[1]>>>>

\* _create_gluon_univariate_timeseries (df is never empty here)
create_gluon_univariate_timeseries(self, table, idx, target_column_name, length, identifiers_values) ==
    LET base == [start            |-> table[idx[1]].t,
                 target           |-> ILoc([j \in 1..Len(idx) |-> Cell("train", target_column_name, idx[j])], length),
                 target_name      |-> target_column_name,
                 time_column_name |-> self.time_column_name]
        feats == IF Len(self.external_features_columns_names) > 0
                 THEN [feat_dynamic_real |->
                          [f \in 1..Len(self.external_features_columns_names) |->
                              ILoc([j \in 1..Len(idx) |->
                                      Cell("train", self.external_features_columns_names[f], idx[j])], length)],
                       feat_dynamic_real_columns_names |-> self.external_features_columns_names]
                 ELSE <<>>
        ids   == IF Truthy(identifiers_values)
                 THEN [identifiers |-> IdentifiersMap(self.timeseries_identifiers_names, identifiers_values)]
                 ELSE <<>>
    IN  base @@ feats @@ ids

\* faulty variant: only the first target column gets a record
create_gluon_multivariate_timeseries_first(self, table, idx, length, identifiers_values) ==
    [c \in 1..Min(1, Len(self.target_columns_names)) |->
        create_gluon_univariate_timeseries(self, table, idx, self.target_columns_names[c], length, identifiers_values)]

\* _create_gluon_multivariate_timeseries: one record per target column
create_gluon_multivariate_timeseries(self, table, idx, length, identifiers_values) ==
    [c \in 1..Len(self.target_columns_names) |->
        create_gluon_univariate_timeseries(self, table, idx, self.target_columns_names[c], length, identifiers_values)]

\* faulty variant: the first group does not set the expected values
ExpectedAfter_never(i, table, idx, expected) == expected

\* lines 57-59: the first group sets the expected start date and periods
ExpectedAfter(i, table, idx, expected) ==
    IF i = 0
    THEN [start_date |-> Some(table[idx[1]].t), periods |-> Some(Len(idx))]
    ELSE expected

\* lines 49-60: the loop over the groups, from group g on.  validated counts
\* the calls of the time grid validator.
RECURSIVE GroupLoop(_, _, _, _, _, _, _)
GroupLoop(self, table, groups, g, length, expected, acc) ==
    IF g > Len(groups)
    THEN [status |-> "ok", records |-> acc, validated |-> Len(groups)]
    ELSE IF ~assert_time_column_valid(TimesOf(table, groups[g].idx), self.frequency,
                                      expected.start_date, expected.periods)
    THEN [status |-> "TimeContinuityError", records |-> <<>>, validated |-> g]
    ELSE GroupLoop(self, table, groups, g + 1, length,
                   ExpectedAfter(g - 1, table, groups[g].idx, expected),
                   acc \o create_gluon_multivariate_timeseries(self, table, groups[g].idx, length, groups[g].key))

\* GluonDataset.create_list_dataset: the list_data of the ListDataset it
\* returns, or the exception it raises
create_list_dataset(self, table, cut_length) ==
    LET length == SliceLength(cut_length)
    IN  IF Len(self.timeseries_identifiers_names) > 0
        THEN GroupLoop(self, table, GroupBy(table, self.timeseries_identifiers_names), 1, length,
                       [start_date |-> None, periods |-> None], <<>>)
        ELSE IF ~assert_time_column_valid(TimesOf(table, AllRows(table)), self.frequency, None, None)
        THEN [status |-> "TimeContinuityError", records |-> <<>>, validated |-> 1]
        ELSE IF Len(table) = 0 /\ Len(self.target_columns_names) > 0
        THEN [status |-> "IndexError", records |-> <<>>, validated |-> 1]
        ELSE [status |-> "ok",
              records |-> create_gluon_multivariate_timeseries(self, table, AllRows(table), length, NoKey),
              validated |-> 1]

----------------------------------------------------------------------------
(* recipe_config_loading.py *)

MaxPred == 2

RecipeTargetChoices == TargetChoices \cup {<<"ghost">>}

RecipeConfigs ==
    [time_column              : {TIME_COLUMN, "ghost"},
     target_columns           : RecipeTargetChoices,
     timeseries_identifiers   : IdentifierChoices,
     external_feature_columns : FeatureChoices,
     time_granularity_unit    : {"D", "M"},
     time_granularity_step    : {"1", "None"},
     prediction_length        : {None} \cup {Some(n) : n \in 1..MaxPred}]

ParamError(message) ==
    [error |-> "PluginParamValidationError", message |-> message,
     time_column_name |-> "", target_columns_names |-> <<>>,
     timeseries_identifiers_names |-> <<>>, external_features_columns_names |-> <<>>,
     frequency |-> FormatFrequency("", ""), prediction_length |-> 0]

\* faulty variant: the empty selection is let through
InvalidTargets_noEmptyCheck(target_columns_names, training_dataset_columns) ==
    ~(\A c \in Range(target_columns_names) : c \in training_dataset_columns)

\* line 41: the target columns selection is refused
InvalidTargets(target_columns_names, training_dataset_columns) ==
    \/ Len(target_columns_names) = 0
    \/ ~(\A c \in Range(target_columns_names) : c \in training_dataset_columns)

\* load_training_config: the params it returns, or the error it raises
load_training_config(recipe_config, training_dataset_columns) ==
    IF recipe_config.time_column \notin training_dataset_columns
    THEN ParamError("Invalid time column selection")
    ELSE IF InvalidTargets(recipe_config.target_columns, training_dataset_columns)
    THEN ParamError("Invalid target column(s) selection")
    ELSE IF ~(\A c \in Range(recipe_config.timeseries_identifiers) : c \in training_dataset_columns)
    THEN ParamError("Invalid timeseries identifiers column(s) selection")
    ELSE IF ~(\A c \in Range(recipe_config.external_feature_columns) : c \in training_dataset_columns)
    THEN ParamError("Invalid external features column(s) selection")
    ELSE IF recipe_config.time_granularity_step = "None"
    THEN ParamError("Time granularity step is not set.")
    ELSE IF ~recipe_config.prediction_length.some
    THEN ParamError("Prediction length is not set.")
    ELSE [error |-> "none", message |-> "",
          time_column_name |-> recipe_config.time_column,
          target_columns_names |-> recipe_config.target_columns,
          timeseries_identifiers_names |-> recipe_config.timeseries_identifiers,
          external_features_columns_names |-> recipe_config.external_feature_columns,
          frequency |-> FormatFrequency(recipe_config.time_granularity_step,
                                        recipe_config.time_granularity_unit),
          prediction_length |-> recipe_config.prediction_length.v]

----------------------------------------------------------------------------
(* utils.py *)

MaxFuture == 2

FutureTables == SeqsUpTo(Rows, MaxFuture)

RECURSIVE Filter(_, _)
Filter(idx, mask) ==
    IF Len(idx) = 0 THEN <<>>
    ELSE (IF mask[Head(idx)] THEN <<Head(idx)>> ELSE <<>>) \o Filter(Tail(idx), mask)

\* faulty variant: the conditions are or-ed
MaskAnd_or(c1, c2) == [i \in 1..Len(c1) |-> c1[i] \/ c2[i]]

\* c1 & c2 of two boolean series
MaskAnd(c1, c2) == [i \in 1..Len(c1) |-> c1[i] /\ c2[i]]

\* reduce(lambda c1, c2: c1 & c2, conditions, initial)
RECURSIVE ReduceAnd(_, _)
ReduceAnd(conditions, initial) ==
    IF Len(conditions) = 0 THEN initial
    ELSE ReduceAnd(Tail(conditions), MaskAnd(initial, Head(conditions)))

\* apply_filter_conditions
apply_filter_conditions(idx, conditions) ==
    IF Len(conditions) = 0 THEN idx
    ELSE IF Len(conditions) = 1 THEN Filter(idx, conditions[1])
    ELSE Filter(idx, ReduceAnd(Tail(conditions), conditions[1]))

\* line 49: one boolean series per identifier
IdentifierConditions(table, timeseries_identifiers) ==
    [c \in 1..Len(timeseries_identifiers) |->
        [i \in 1..Len(table) |-> table[i][timeseries_identifiers[c][1]] = timeseries_identifiers[c][2]]]

RECURSIVE InsertByTime(_, _, _)
InsertByTime(table, sorted, i) ==
    IF Len(sorted) = 0 THEN <<i>>
    ELSE IF table[i].t < table[Head(sorted)].t THEN <<i>> \o sorted
    ELSE <<Head(sorted)>> \o InsertByTime(table, Tail(sorted), i)

RECURSIVE SortByTime(_, _)
SortByTime(table, idx) ==
    IF Len(idx) = 0 THEN <<>>
    ELSE InsertByTime(table, SortByTime(table, SubSeq(idx, 1, Len(idx) - 1)), idx[Len(idx)])

\* gluonts_forecasts.timeseries_preparation.prepare_timeseries_dataframe,
\* imported by utils.py: the normalization step that sorts the slice by
\* time and validates its time grid at the frequency
prepare_timeseries_dataframe(table, idx, frequency) ==
    LET sorted == SortByTime(table, idx)
    IN  [ok  |-> assert_time_column_valid(TimesOf(table, sorted), frequency, None, None),
         idx |-> sorted]

\* faulty variant: no copy is made, gluon_dataset is the caller's object
DeepCopy_alias(source) == source

\* line 43: copy.deepcopy gives a new object; the name of the object that
\* gluon_dataset is bound to
DeepCopy(source) == "copy"

\* line 65: np.append(feat_dynamic_real_train, feat_dynamic_real_future, axis=1)
NpAppendAxis1(a, b) == [f \in 1..Len(a) |-> a[f] \o b[f]]

\* faulty variant: too many future rows are let through
HorizonMismatch_tooFewOnly(n_future, prediction_length) == n_future < prediction_length

\* line 62: the horizon check fails
HorizonMismatch(n_future, prediction_length) == n_future # prediction_length

\* lines 45-67: the loop over the timeseries of gluon_train_dataset, from
\* timeseries i on.  heap holds the two ListDatasets: the caller's ("train")
\* and the deep copy ("copy"); gluon_dataset names the one written to.
RECURSIVE FutureLoop(_, _, _, _, _, _)
FutureLoop(heap, gluon_dataset, i, table, prediction_length, frequency) ==
    IF i > Len(heap.train)
    THEN [status |-> "ok", records |-> heap[gluon_dataset], train |-> heap.train]
    ELSE
    LET timeseries == heap.train[i]
        filtered   == IF "identifiers" \in DOMAIN timeseries
                      THEN apply_filter_conditions(AllRows(table),
                                                   IdentifierConditions(table, timeseries.identifiers))
                      ELSE AllRows(table)
    IN  IF "feat_dynamic_real" \notin DOMAIN timeseries
        THEN [status |-> "KeyError", records |-> <<>>, train |-> heap.train]
        ELSE
        LET prepared == prepare_timeseries_dataframe(table, filtered, frequency)
            names    == timeseries.feat_dynamic_real_columns_names
            feat_dynamic_real_future ==
                [f \in 1..Len(names) |->
                    [j \in 1..Len(prepared.idx) |-> Cell("future", names[f], prepared.idx[j])]]
        IN  IF ~prepared.ok
            THEN [status |-> "TimeContinuityError", records |-> <<>>, train |-> heap.train]
            ELSE IF HorizonMismatch(Len(prepared.idx), prediction_length)
            THEN [status |-> "HorizonMismatch", records |-> <<>>, train |-> heap.train]
            ELSE FutureLoop(
                    [heap EXCEPT ![gluon_dataset][i].feat_dynamic_real =
                        NpAppendAxis1(timeseries.feat_dynamic_real, feat_dynamic_real_future)],
                    gluon_dataset, i + 1, table, prediction_length, frequency)

\* add_future_external_features: [status, records, train] where records is
\* the list_data of the returned ListDataset and train the list_data of
\* the caller's gluon_train_dataset after the call
add_future_external_features(gluon_train_dataset, table, prediction_length, frequency) ==
    FutureLoop([train |-> gluon_train_dataset, copy |-> gluon_train_dataset],
               DeepCopy("train"), 1, table, prediction_length, frequency)

\* dku_checks_utils.external_features_check: "IndexError" for an empty
\* training dataset, else "True", "False" or "ValueError"
external_features_check(gluon_train_dataset, has_future_dataset) ==
    IF Len(gluon_train_dataset) = 0 THEN "IndexError"
    ELSE LET trained_with_external_features ==
                 "feat_dynamic_real_columns_names" \in DOMAIN gluon_train_dataset[1]
         IN  IF trained_with_external_features /\ has_future_dataset THEN "True"
             ELSE IF trained_with_external_features /\ ~has_future_dataset THEN "ValueError"
             ELSE IF ~trained_with_external_features /\ has_future_dataset THEN "ValueError"
             ELSE "False"

----------------------------------------------------------------------------
(* trained_model.py *)

MaxQuantiles == 3
MaxKeys == 2

\* Quantiles are counted in tenths: 1 is the quantile 0.1, 5 the median
QuantileLevels == {1, 3, 5, 9}

MEDIAN == 5

\* a missing value (NaN)
NaN == <<"NaN">>

\* the requested quantiles of a TrainedModel
QuantileLists == SeqsUpTo(QuantileLevels, MaxQuantiles) \ {<<>>}

\* QuantileForecast.forecast_keys: the quantiles the predictor was trained
\* to emit, in the order of its keys
ForecastKeys ==
    {k \in SeqsUpTo(QuantileLevels, MaxKeys) \ {<<>>} :
        \A i, j \in 1..Len(k) : i # j => k[i] # k[j]}

\* The predictor (gluonts.model.predictor.Predictor): its prediction_length
\* and the forecasts it makes, SampleForecast (any quantile can be computed)
\* or QuantileForecast (only the quantiles of forecast_keys)
Predictors ==
    [prediction_length : 1..MaxPred, kind : {"SampleForecast"}, forecast_keys : {<<>>}]
    \cup [prediction_length : 1..MaxPred, kind : {"QuantileForecast"}, forecast_keys : ForecastKeys]

\* predictor.predict(gluon_dataset): one forecast per timeseries of the
\* dataset, in the same order, over the predictor's prediction_length time
\* steps that follow the end of the target
PredictorPredict(predictor, list_data, frequency) ==
    [i \in 1..Len(list_data) |->
        [item            |-> i,
         kind            |-> predictor.kind,
         forecast_keys   |-> predictor.forecast_keys,
         freq            |-> frequency,
         index           |->
            LET n == Len(list_data[i].target)
                all == DateRangePeriods(list_data[i].start, n + predictor.prediction_length, frequency)
            IN  SubSeq(all, n + 1, n + predictor.prediction_length)]]

\* A column name is a sequence of strings: <<"sales">> is the name sales,
\* <<"forecast_lower", "sales">> the name forecast_lower_sales
ColumnName(name) == <<name>>

\* A pandas Series or DataFrame with its index: the column names, the
\* index (ticks) and the values of each column, by position in the index
Frame(columns, index, cols) == [columns |-> columns, index |-> index, cols |-> cols]

Series(name, index, values) == Frame(<<name>>, index, <<values>>)

\* forecast.quantile_ts(quantile): the trajectory of the quantile, as an
\* unnamed Series over the forecast's dates.  Its values are symbolic: the
\* forecast they are taken from, the quantile and the time step.
QuantileTs(forecast, quantile) ==
    Series("", forecast.index,
           [k \in 1..Len(forecast.index) |-> <<"forecast", forecast.item, quantile, k>>])

Abs(x) == IF x < 0 THEN 0 - x ELSE x

\* faulty variant: the first available quantile is taken
MinByDistance_first(possible_quantiles, quantile) == possible_quantiles[1]

\* line 247: min(possible_quantiles, key=lambda x: abs(x - quantile)), the
\* first element of the list with the smallest key
MinByDistance(possible_quantiles, quantile) ==
    LET best == CHOOSE i \in 1..Len(possible_quantiles) :
                    /\ \A j \in 1..Len(possible_quantiles) :
                           Abs(possible_quantiles[i] - quantile) <= Abs(possible_quantiles[j] - quantile)
                    /\ \A j \in 1..(i - 1) :
                           Abs(possible_quantiles[j] - quantile) > Abs(possible_quantiles[i] - quantile)
    IN  possible_quantiles[best]

\* TrainedModel._round_to_existing_quantiles
round_to_existing_quantiles(quantiles, sample_forecasts) ==
    LET possible_quantiles == sample_forecasts.forecast_keys
    IN  [q \in 1..Len(quantiles) |-> MinByDistance(possible_quantiles, quantiles[q])]

\* faulty variant: the horizon is never refused
check_never(predictor, prediction_length) == FALSE

\* TrainedModel._check: TRUE when it raises the ValueError
check(predictor, prediction_length) ==
    predictor.prediction_length < prediction_length

\* TrainedModel.__init__: the attributes of the object, or the ValueError
\* of _check with the horizon its message names
TrainedModelInit(predictor, gluon_dataset, prediction_length, quantiles, include_history) ==
    LET self == [predictor         |-> predictor,
                 gluon_dataset     |-> gluon_dataset,
                 prediction_length |-> IF prediction_length = -1
                                       THEN predictor.prediction_length
                                       ELSE prediction_length,
                 quantiles         |-> quantiles,
                 include_history   |-> include_history]
    IN  IF check(self.predictor, self.prediction_length)
        THEN [raised |-> "ValueError", horizon_named |-> self.predictor.prediction_length, self |-> self]
        ELSE [raised |-> "none", horizon_named |-> 0, self |-> self]

\* the cells of a table without index: a timestamp, an identifier value
TimeCell(t) == <<"t", t>>

IdCell(v) == <<"id", v>>

\* the column names of the tables in alphabetical order (the order of
\* sorted() on the items of the identifiers dictionary)
NameOrder == <<"date", "item", "promo", "returns", "sales", "store">>

RECURSIVE SortedItems(_, _)
SortedItems(items, r) ==
    IF r > Len(NameOrder) THEN <<>>
    ELSE SelectSeq(items, LAMBDA it : it[1] = NameOrder[r]) \o SortedItems(items, r + 1)

\* lines 162-165 and 132-135: tuple(sorted(identifiers.items())) or None
IdentifierKey(timeseries) ==
    IF "identifiers" \in DOMAIN timeseries
    THEN [kind |-> "tuple", items |-> SortedItems(timeseries.identifiers, 1)]
    ELSE [kind |-> "None", items |-> <<>>]

\* A dictionary of lists is the sequence of its entries [key, list] in
\* insertion order.  lines 182-185 and 145-148: append to the list of the
\* key, or insert the key with a new list
HasKey(dict, key) == \E e \in 1..Len(dict) : dict[e].key = key

DictAppend(dict, key, item) ==
    IF HasKey(dict, key)
    THEN [e \in 1..Len(dict) |->
            IF dict[e].key = key THEN [dict[e] EXCEPT !.list = @ \o <<item>>] ELSE dict[e]]
    ELSE dict \o <<[key |-> key, list |-> <<item>>]>>

\* faulty variant: every quantile is labelled as the median
ForecastsLabelPrefix_median(quantile) == "forecast"

\* lines 171-175
ForecastsLabelPrefix(quantile) ==
    IF quantile < MEDIAN THEN "forecast_lower"
    ELSE IF quantile > MEDIAN THEN "forecast_upper"
    ELSE "forecast"

\* series.rename(name)
Rename(series, name) == [series EXCEPT !.columns = <<name>>]

\* series.iloc[:stop] for stop >= 0
ILocSeries(series, stop) ==
    [series EXCEPT !.index = SubSeq(@, 1, Min(stop, Len(@))),
                   !.cols = <<SubSeq(@[1], 1, Min(stop, Len(@[1])))>>]

\* lines 170-185: the quantiles of forecast i, from quantile q on
RECURSIVE QuantilesLoop(_, _, _, _, _, _)
QuantilesLoop(self, quantiles, forecasts_list, i, q, forecasts_timeseries) ==
    IF q > Len(quantiles) THEN forecasts_timeseries
    ELSE
    LET timeseries_identifier_key == IdentifierKey(self.gluon_dataset[i])
        forecasts_series ==
            ILocSeries(Rename(QuantileTs(forecasts_list[i], quantiles[q]),
                              <<ForecastsLabelPrefix(quantiles[q]), self.gluon_dataset[i].target_name>>),
                       self.prediction_length)
    IN  QuantilesLoop(self, quantiles, forecasts_list, i, q + 1,
                      DictAppend(forecasts_timeseries, timeseries_identifier_key, forecasts_series))

\* lines 161-185: the loop over the forecasts, from forecast i on
RECURSIVE ForecastsLoop(_, _, _, _, _)
ForecastsLoop(self, quantiles, forecasts_list, i, forecasts_timeseries) ==
    IF i > Len(forecasts_list) THEN forecasts_timeseries
    ELSE ForecastsLoop(self, quantiles, forecasts_list, i + 1,
                       QuantilesLoop(self, quantiles, forecasts_list, i, 1, forecasts_timeseries))

\* TrainedModel._compute_forecasts_timeseries: the dictionary it returns
\* and self.quantiles after the call
compute_forecasts_timeseries(self, forecasts_list) ==
    LET quantiles == IF Len(forecasts_list) > 0 /\ forecasts_list[1].kind = "QuantileForecast"
                     THEN round_to_existing_quantiles(self.quantiles, forecasts_list[1])
                     ELSE self.quantiles
    IN  [quantiles |-> quantiles,
         forecasts_timeseries |-> ForecastsLoop(self, quantiles, forecasts_list, 1, <<>>)]

----------------------------------------------------------------------------
(* utils.py: concatenation of the timeseries *)

RECURSIVE SortTicks(_)
SortTicks(S) ==
    IF S = {} THEN <<>>
    ELSE LET m == CHOOSE x \in S : \A y \in S : x <= y
         IN  <<m>> \o SortTicks(S \ {m})

PositionIn(index, t) == CHOOSE r \in 1..Len(index) : index[r] = t

\* a column reindexed on a new index: NaN where the frame has no value
Reindex(frame, c, index) ==
    [r \in 1..Len(index) |->
        IF index[r] \in Range(frame.index)
        THEN frame.cols[c][PositionIn(frame.index, index[r])]
        ELSE NaN]

RECURSIVE ColumnsOfAll(_)
ColumnsOfAll(frames) ==
    IF Len(frames) = 0 THEN <<>>
    ELSE Head(frames).columns \o ColumnsOfAll(Tail(frames))

RECURSIVE ReindexAll(_, _)
ReindexAll(frames, index) ==
    IF Len(frames) = 0 THEN <<>>
    ELSE [c \in 1..Len(Head(frames).columns) |-> Reindex(Head(frames), c, index)]
         \o ReindexAll(Tail(frames), index)

\* faulty variant: a series replaces the earlier columns of the same name
ConcatAxis1_overwrite(series_list) ==
    LET index == SortTicks(UNION {Range(series_list[i].index) : i \in 1..Len(series_list)})
        columns == ColumnsOfAll(series_list)
        cols == ReindexAll(series_list, index)
        kept == {c \in 1..Len(columns) : \A d \in (c + 1)..Len(columns) : columns[d] # columns[c]}
        order == SortTicks({CHOOSE d \in 1..Len(columns) : columns[d] = columns[c] : c \in kept})
    IN  Frame([c \in 1..Len(order) |-> columns[order[c]]], index,
              [c \in 1..Len(order) |->
                  cols[CHOOSE d \in kept : columns[d] = columns[order[c]]]])

\* pd.concat(series_list, axis=1): every series or dataframe of the list
\* gives its columns, in order, on the union of the indexes; columns of
\* the same name are all kept
ConcatAxis1(series_list) ==
    LET index == SortTicks(UNION {Range(series_list[i].index) : i \in 1..Len(series_list)})
    IN  Frame(ColumnsOfAll(series_list), index, ReindexAll(series_list, index))

\* A dataframe without index (after reset_index) is its column names and
\* its rows, each the sequence of its cells in the order of the columns.
\* .reset_index(drop=False): the index becomes the first column, "index"
ResetIndex(frame) ==
    [columns |-> <<ColumnName("index")>> \o frame.columns,
     rows    |-> [r \in 1..Len(frame.index) |->
                    <<TimeCell(frame.index[r])>> \o [c \in 1..Len(frame.columns) |-> frame.cols[c][r]]]]

HasColumn(df, name) == \E c \in 1..Len(df.columns) : df.columns[c] = name

\* df[name] = value: sets the columns of that name, or adds the column
SetColumn(df, name, value) ==
    IF HasColumn(df, name)
    THEN [df EXCEPT !.rows = [r \in 1..Len(@) |->
                                [c \in 1..Len(df.columns) |->
                                    IF df.columns[c] = name THEN value ELSE @[r][c]]]]
    ELSE [columns |-> df.columns \o <<name>>,
          rows    |-> [r \in 1..Len(df.rows) |-> df.rows[r] \o <<value>>]]

\* lines 84-86: one column per identifier of the key
RECURSIVE SetIdentifiers(_, _)
SetIdentifiers(df, items) ==
    IF Len(items) = 0 THEN df
    ELSE SetIdentifiers(SetColumn(df, ColumnName(Head(items)[1]), IdCell(Head(items)[2])), Tail(items))

\* concat_timeseries_per_identifiers: one dataframe per key of the
\* dictionary, in the order of the keys
concat_timeseries_per_identifiers(all_timeseries) ==
    [e \in 1..Len(all_timeseries) |->
        LET unique_identifiers_df == ResetIndex(ConcatAxis1(all_timeseries[e].list))
        IN  IF all_timeseries[e].key.kind # "None" /\ Len(all_timeseries[e].key.items) > 0
            THEN SetIdentifiers(unique_identifiers_df, all_timeseries[e].key.items)
            ELSE unique_identifiers_df]

IsUnique(columns) == \A c, d \in 1..Len(columns) : c # d => columns[c] # columns[d]

\* the columns of the dataframes in the order of their first appearance
RECURSIVE UnionColumns(_, _)
UnionColumns(multiple_df, acc) ==
    IF Len(multiple_df) = 0 THEN acc
    ELSE UnionColumns(Tail(multiple_df),
                      acc \o SelectSeq(Head(multiple_df).columns, LAMBDA n : n \notin Range(acc)))

RECURSIVE RowsOfAll(_, _)
RowsOfAll(multiple_df, columns) ==
    IF Len(multiple_df) = 0 THEN <<>>
    ELSE LET df == Head(multiple_df)
         IN  [r \in 1..Len(df.rows) |->
                [c \in 1..Len(columns) |->
                    IF HasColumn(df, columns[c])
                    THEN df.rows[r][CHOOSE d \in 1..Len(df.columns) : df.columns[d] = columns[c]]
                    ELSE NaN]]
             \o RowsOfAll(Tail(multiple_df), columns)

RECURSIVE StackRows(_)
StackRows(multiple_df) ==
    IF Len(multiple_df) = 0 THEN <<>>
    ELSE Head(multiple_df).rows \o StackRows(Tail(multiple_df))

\* concat_all_timeseries, pd.concat(multiple_df, axis=0).reset_index(drop=True):
\* the rows of the dataframes one after the other.  It raises ValueError
\* for an empty list, and InvalidIndexError when the dataframes have to be
\* aligned on different columns and one has several columns of one name.
concat_all_timeseries(multiple_df) ==
    IF Len(multiple_df) = 0
    THEN [status |-> "ValueError", df |-> [columns |-> <<>>, rows |-> <<>>]]
    ELSE IF \A e \in 1..Len(multiple_df) : multiple_df[e].columns = multiple_df[1].columns
    THEN [status |-> "ok", df |-> [columns |-> multiple_df[1].columns, rows |-> StackRows(multiple_df)]]
    ELSE IF \E e \in 1..Len(multiple_df) : ~IsUnique(multiple_df[e].columns)
    THEN [status |-> "InvalidIndexError", df |-> [columns |-> <<>>, rows |-> <<>>]]
    ELSE LET columns == UnionColumns(multiple_df, <<>>)
         IN  [status |-> "ok", df |-> [columns |-> columns, rows |-> RowsOfAll(multiple_df, columns)]]

----------------------------------------------------------------------------
(* trained_model.py: history and output table *)

Repeat(x, n) == [k \in 1..n |-> x]

\* TrainedModel._generate_history_target_series
generate_history_target_series(self, timeseries, frequency) ==
    Series(ColumnName(timeseries.target_name),
           DateRangePeriods(timeseries.start, Len(timeseries.target) + self.prediction_length, frequency),
           timeseries.target \o Repeat(NaN, self.prediction_length))

\* TrainedModel._generate_history_external_features_dataframe
generate_history_external_features_dataframe(self, timeseries, frequency) ==
    LET periods == Len(timeseries.target) + self.prediction_length
    IN  Frame([f \in 1..Len(timeseries.feat_dynamic_real_columns_names) |->
                  ColumnName(timeseries.feat_dynamic_real_columns_names[f])],
              DateRangePeriods(timeseries.start, periods, frequency),
              [f \in 1..Len(timeseries.feat_dynamic_real) |->
                  SubSeq(timeseries.feat_dynamic_real[f], 1, periods)])

\* lines 131-148: the loop over the timeseries of the dataset, from
\* timeseries i on
RECURSIVE HistoryLoop(_, _, _, _)
HistoryLoop(self, frequency, i, history_timeseries) ==
    IF i > Len(self.gluon_dataset)
    THEN [status |-> "ok", history_timeseries |-> history_timeseries]
    ELSE
    LET timeseries == self.gluon_dataset[i]
        timeseries_identifier_key == IdentifierKey(timeseries)
        target_series == generate_history_target_series(self, timeseries, frequency)
        has_features == "feat_dynamic_real_columns_names" \in DOMAIN timeseries
    IN  IF has_features
           /\ ~(Len(timeseries.feat_dynamic_real[1]) >= Len(timeseries.target) + self.prediction_length)
        THEN [status |-> "AssertionError", history_timeseries |-> <<>>]
        ELSE
        LET with_features ==
                IF has_features /\ ~HasKey(history_timeseries, timeseries_identifier_key)
                THEN DictAppend(history_timeseries, timeseries_identifier_key,
                                generate_history_external_features_dataframe(self, timeseries, frequency))
                ELSE history_timeseries
        IN  HistoryLoop(self, frequency, i + 1,
                        DictAppend(with_features, timeseries_identifier_key, target_series))

\* TrainedModel._retrieve_history_timeseries
retrieve_history_timeseries(self, frequency) == HistoryLoop(self, frequency, 1, <<>>)

ColumnAt(df, name) == CHOOSE c \in 1..Len(df.columns) : df.columns[c] = name

KeyOfRow(df, row, on) == [k \in 1..Len(on) |-> row[ColumnAt(df, on[k])]]

\* the positions of the columns of df that are not in on
OtherColumns(df, on) ==
    SelectSeq([c \in 1..Len(df.columns) |-> c], LAMBDA c : df.columns[c] \notin Range(on))

\* the rows of the merge for the left rows from l on
RECURSIVE MergeRows(_, _, _, _, _, _, _)
MergeRows(left, right, on, lother, rother, l, acc) ==
    IF l > Len(left.rows) THEN acc
    ELSE
    LET lrow == left.rows[l]
        matches == SelectSeq([r \in 1..Len(right.rows) |-> r],
                             LAMBDA r : KeyOfRow(right, right.rows[r], on) = KeyOfRow(left, lrow, on))
        keys == KeyOfRow(left, lrow, on)
        lvals == [c \in 1..Len(lother) |-> lrow[lother[c]]]
        out == IF Len(matches) = 0
               THEN <<keys \o lvals \o [c \in 1..Len(rother) |-> NaN] \o <<"left_only">>>>
               ELSE [m \in 1..Len(matches) |->
                        keys \o lvals
                        \o [c \in 1..Len(rother) |-> right.rows[matches[m]][rother[c]]]
                        \o <<"both">>]
    IN  MergeRows(left, right, on, lother, rother, l + 1, acc \o out)

\* left.merge(right, on=on, how="left", indicator=True): the rows of left
\* in order, each with every row of right of the same key; a column that
\* is in both and not a key gets the suffixes _x and _y; the last column,
\* _merge, says where the row comes from
MergeLeft(left, right, on) ==
    LET lother == OtherColumns(left, on)
        rother == OtherColumns(right, on)
        lnames == [c \in 1..Len(lother) |->
                     IF left.columns[lother[c]] \in {right.columns[rother[d]] : d \in 1..Len(rother)}
                     THEN left.columns[lother[c]] \o <<"_x">> ELSE left.columns[lother[c]]]
        rnames == [c \in 1..Len(rother) |->
                     IF right.columns[rother[c]] \in {left.columns[lother[d]] : d \in 1..Len(lother)}
                     THEN right.columns[rother[c]] \o <<"_y">> ELSE right.columns[rother[c]]]
    IN  [columns |-> on \o lnames \o rnames \o <<ColumnName("_merge")>>,
         rows    |-> MergeRows(left, right, on, lother, rother, 1, <<>>)]

\* TrainedModel._include_history
include_history(self, forecasts_df, identifiers_columns, frequency) ==
    LET history_timeseries == retrieve_history_timeseries(self, frequency)
    IN  IF history_timeseries.status # "ok"
        THEN [status |-> history_timeseries.status, df |-> [columns |-> <<>>, rows |-> <<>>]]
        ELSE
        LET multiple_df == concat_timeseries_per_identifiers(history_timeseries.history_timeseries)
            history_df == concat_all_timeseries(multiple_df)
        IN  IF history_df.status # "ok"
            THEN [status |-> history_df.status, df |-> [columns |-> <<>>, rows |-> <<>>]]
            ELSE [status |-> "ok",
                  df |-> MergeLeft(history_df.df, forecasts_df,
                                   <<ColumnName("index")>>
                                   \o [c \in 1..Len(identifiers_columns) |-> ColumnName(identifiers_columns[c])])]

\* the values of ROW_ORIGIN
ROW_ORIGIN_FORECAST == "forecast"

ROW_ORIGIN_HISTORY == "history"

\* gluonts_forecasts.utils.add_row_origin, imported by trained_model.py:
\* the marker column replaces the indicator of the merge (both, left_only);
\* without a merge every row is a forecast row
add_row_origin(df, both, left_only) ==
    IF HasColumn(df, ColumnName("_merge"))
    THEN LET m == ColumnAt(df, ColumnName("_merge"))
         IN  [columns |-> [c \in 1..Len(df.columns) |->
                             IF c = m THEN ColumnName("row_origin") ELSE df.columns[c]],
              rows    |-> [r \in 1..Len(df.rows) |->
                             [c \in 1..Len(df.columns) |->
                                 IF c = m
                                 THEN <<"origin", IF df.rows[r][c] = "both" THEN both ELSE left_only>>
                                 ELSE df.rows[r][c]]]]
    ELSE SetColumn(df, ColumnName("row_origin"), <<"origin", both>>)

\* df.rename(columns={"index": time_column_name})
RenameColumns(df, old, new) ==
    [df EXCEPT !.columns = [c \in 1..Len(@) |-> IF @[c] = old THEN new ELSE @[c]]]

NoFrame == [columns |-> <<>>, rows |-> <<>>]

\* lines 53-55: the names of the identifiers of the first timeseries
IdentifiersColumns(list_data) ==
    IF "identifiers" \in DOMAIN list_data[1]
    THEN [c \in 1..Len(list_data[1].identifiers) |-> list_data[1].identifiers[c][1]]
    ELSE <<>>

\* TrainedModel.predict: the exception it raises ("none" if it returns) and
\* the attributes it sets
predict(self, frequency) ==
    LET forecasts_list == PredictorPredict(self.predictor, self.gluon_dataset, frequency)
        computed == compute_forecasts_timeseries(self, forecasts_list)
        forecasts_timeseries == computed.forecasts_timeseries
        multiple_df == concat_timeseries_per_identifiers(forecasts_timeseries)
        concatenated == concat_all_timeseries(multiple_df)
        failed(status) ==
            [raised |-> status, quantiles |-> computed.quantiles,
             forecasts_timeseries |-> forecasts_timeseries, multiple_df |-> multiple_df,
             time_column_name |-> "", identifiers_columns |-> <<>>, forecasts_df |-> NoFrame]
    IN  IF concatenated.status # "ok" THEN failed(concatenated.status)
        ELSE
        LET time_column_name == self.gluon_dataset[1].time_column_name
            identifiers_columns == IdentifiersColumns(self.gluon_dataset)
            merged == IF self.include_history
                      THEN include_history([self EXCEPT !.quantiles = computed.quantiles],
                                           concatenated.df, identifiers_columns, forecasts_list[1].freq)
                      ELSE [status |-> "ok", df |-> concatenated.df]
        IN  IF merged.status # "ok" THEN failed(merged.status)
            ELSE [raised |-> "none", quantiles |-> computed.quantiles,
                  forecasts_timeseries |-> forecasts_timeseries, multiple_df |-> multiple_df,
                  time_column_name |-> time_column_name,
                  identifiers_columns |-> identifiers_columns,
                  forecasts_df |-> RenameColumns(add_row_origin(merged.df, ROW_ORIGIN_FORECAST, ROW_ORIGIN_HISTORY),
                                                 ColumnName("index"), ColumnName(time_column_name))]

----------------------------------------------------------------------------
(* The state machine: each action is one call of a function of the plugin *)

NoCheck ==
    [column |-> [rep |-> "naive", walls |-> <<>>], unit |-> "", step |-> "",
     result |-> "", after |-> [rep |-> "naive", walls |-> <<>>],
     raised |-> "", frequency |-> FormatFrequency("", ""),
     period_end |-> FALSE, unit_name |-> ""]

NoParams == [config_targets |-> <<>>, result |-> ParamError("")]

NoSelf ==
    [time_column_name |-> "", frequency |-> FormatFrequency("", ""),
     target_columns_names |-> <<>>, timeseries_identifiers_names |-> <<>>,
     external_features_columns_names |-> <<>>]

NoDataset ==
    [self |-> NoSelf, table |-> <<>>, cut_length |-> None,
     status |-> "", records |-> <<>>, validated |-> 0, built |-> <<>>]

NoFuture == [table |-> <<>>, prediction_length |-> 0]

NoAligned == [status |-> "", records |-> <<>>, calls |-> 0, first |-> <<>>, first_status |-> ""]

NoPredictor == [prediction_length |-> 0, kind |-> "", forecast_keys |-> <<>>]

NoPrediction ==
    [raised |-> "", quantiles |-> <<>>, forecasts_timeseries |-> <<>>, multiple_df |-> <<>>,
     time_column_name |-> "", identifiers_columns |-> <<>>, forecasts_df |-> NoFrame]

\* the TrainedModel: the arguments of its constructor, what the constructor
\* raised, its attributes, the calls of predictor.predict and what
\* predict() raised and set; rounded is the result of a call of
\* _round_to_existing_quantiles
NoModel ==
    [predictor |-> NoPredictor, prediction_length_arg |-> 0, quantiles_arg |-> <<>>,
     include_history |-> FALSE, raised |-> "", horizon_named |-> 0,
     prediction_length |-> 0, predict_calls |-> 0, prediction |-> NoPrediction,
     rounded |-> <<>>]

Init ==
    /\ phase = "idle"
    /\ chk = NoCheck
    /\ params = NoParams
    /\ ds = NoDataset
    /\ future = NoFuture
    /\ aligned = NoAligned
    /\ tm = NoModel

\* check_continuous_time_column(dataframe, time_column_name, unit, step)
CheckContinuous ==
    /\ phase = "idle"
    /\ \E column \in TimeColumns, unit \in Units, step \in Steps :
         LET r == check_continuous_time_column(column, unit, step)
         IN  chk' = [NoCheck EXCEPT !.column = column, !.unit = unit, !.step = step,
                                    !.result = r.result, !.after = r.column]
    /\ phase' = "checked"
    /\ UNCHANGED <<params, ds, future, aligned, tm>>

\* assert_continuous_time_column(dataframe, time_column_name, unit, step)
AssertContinuous ==
    /\ phase = "idle"
    /\ \E column \in TimeColumns, unit \in Units, step \in Steps :
         LET r == assert_continuous_time_column(column, unit, step)
         IN  chk' = [NoCheck EXCEPT !.column = column, !.unit = unit, !.step = step,
                                    !.after = r.column, !.raised = r.raised,
                                    !.frequency = r.frequency,
                                    !.period_end = r.period_end, !.unit_name = r.unit_name]
    /\ phase' = "asserted"
    /\ UNCHANGED <<params, ds, future, aligned, tm>>

\* load_training_config(recipe_config)
LoadTrainingConfig ==
    /\ phase = "idle"
    /\ \E recipe_config \in RecipeConfigs :
         params' = [config_targets |-> recipe_config.target_columns,
                    result |-> load_training_config(recipe_config, TableColumns)]
    /\ phase' = "loaded"
    /\ UNCHANGED <<chk, ds, future, aligned, tm>>

\* GluonDataset(dataframe, time_column_name, frequency, target_columns_names,
\* timeseries_identifiers_names, external_features_columns_names)
\*     .create_list_dataset(cut_length)
BuildDataset(table, unit, targets, identifiers, features, cut_length) ==
    LET self == [time_column_name |-> TIME_COLUMN,
                 frequency |-> FormatFrequency("1", unit),
                 target_columns_names |-> targets,
                 timeseries_identifiers_names |-> identifiers,
                 external_features_columns_names |-> features]
        r == create_list_dataset(self, table, cut_length)
    IN  [self |-> self, table |-> table, cut_length |-> cut_length,
         status |-> r.status, records |-> r.records,
         validated |-> r.validated, built |-> r.records]

CreateListDataset ==
    /\ phase = "idle"
    /\ \E table \in Tables,
          unit \in {"D", "M"},
          targets \in TargetChoices,
          identifiers \in IdentifierChoices,
          features \in FeatureChoices,
          cut_length \in {None} \cup {Some(k) : k \in 0..MaxRows} :
         ds' = BuildDataset(table, unit, targets, identifiers, features, cut_length)
    /\ phase' = "built"
    /\ UNCHANGED <<chk, params, future, aligned, tm>>

\* the training dataset of the prediction recipe: built on the whole table,
\* with external features
CreateTrainDataset ==
    /\ phase = "idle"
    /\ \E table \in Tables,
          unit \in {"D", "M"},
          targets \in TargetChoices \ {<<>>},
          identifiers \in IdentifierChoices :
         ds' = BuildDataset(table, unit, targets, identifiers, <<"promo">>, None)
    /\ phase' = "built"
    /\ UNCHANGED <<chk, params, future, aligned, tm>>

\* add_future_external_features(gluon_train_dataset, external_features_future_df,
\* prediction_length, frequency), called by the prediction recipe when
\* external_features_check returns True
AddFutureExternalFeatures ==
    /\ phase = "built"
    /\ ds.status = "ok"
    /\ external_features_check(ds.records, TRUE) = "True"
    /\ \E table \in FutureTables, prediction_length \in 1..MaxPred :
         LET r == add_future_external_features(ds.records, table, prediction_length, ds.self.frequency)
         IN  /\ future' = [table |-> table, prediction_length |-> prediction_length]
             /\ aligned' = [status |-> r.status, records |-> r.records, calls |-> 1,
                            first |-> r.records, first_status |-> r.status]
             /\ ds' = [ds EXCEPT !.records = r.train]
    /\ phase' = "aligned"
    /\ UNCHANGED <<chk, params, tm>>

\* the same call once more, with the same arguments
AddFutureExternalFeaturesAgain ==
    /\ phase = "aligned"
    /\ aligned.calls = 1
    /\ LET r == add_future_external_features(ds.records, future.table,
                                             future.prediction_length, ds.self.frequency)
       IN  /\ aligned' = [aligned EXCEPT !.status = r.status, !.records = r.records, !.calls = 2]
           /\ ds' = [ds EXCEPT !.records = r.train]
    /\ UNCHANGED <<phase, chk, params, future, tm>>

\* the dataset of the prediction recipe: built on the whole table
CreateForecastDataset ==
    /\ phase = "idle"
    /\ \E table \in Tables,
          unit \in {"D", "M"},
          targets \in TargetChoices,
          identifiers \in IdentifierChoices,
          features \in FeatureChoices :
         ds' = BuildDataset(table, unit, targets, identifiers, features, None)
    /\ phase' = "built"
    /\ UNCHANGED <<chk, params, future, aligned, tm>>

\* the prediction recipe goes on with the dataset that
\* add_future_external_features returns
ExtendWithFutureFeatures ==
    /\ phase = "built"
    /\ ds.status = "ok"
    /\ external_features_check(ds.records, TRUE) = "True"
    /\ \E table \in FutureTables, prediction_length \in 1..MaxPred :
         LET r == add_future_external_features(ds.records, table, prediction_length, ds.self.frequency)
         IN  /\ r.status = "ok"
             /\ ds' = [ds EXCEPT !.records = r.records]
    /\ phase' = "extended"
    /\ UNCHANGED <<chk, params, future, aligned, tm>>

\* the quantiles and the predictors of the prediction recipe
PredictQuantileLists == {<<1, 5, 9>>, <<3, 1>>}

PredictPredictors ==
    {p \in Predictors : p.kind = "QuantileForecast" => p.forecast_keys = <<1, 9>>}

\* TrainedModel(predictor, gluon_dataset, prediction_length, quantiles, include_history)
ConstructTrainedModel ==
    /\ phase \in {"built", "extended"}
    /\ ds.status = "ok"
    /\ \E predictor \in PredictPredictors,
          prediction_length \in {-1} \cup 1..(MaxPred + 1),
          quantiles \in PredictQuantileLists,
          history \in BOOLEAN :
         LET r == TrainedModelInit(predictor, ds.records, prediction_length, quantiles, history)
         IN  tm' = [NoModel EXCEPT !.predictor = predictor,
                                   !.prediction_length_arg = prediction_length,
                                   !.quantiles_arg = quantiles,
                                   !.include_history = history,
                                   !.raised = r.raised,
                                   !.horizon_named = r.horizon_named,
                                   !.prediction_length = r.self.prediction_length]
    /\ phase' = "constructed"
    /\ UNCHANGED <<chk, params, ds, future, aligned>>

\* trained_model.predict(), on a TrainedModel that was constructed
Predict ==
    /\ phase = "constructed"
    /\ tm.raised = "none"
    /\ LET self == [predictor |-> tm.predictor, gluon_dataset |-> ds.records,
                    prediction_length |-> tm.prediction_length,
                    quantiles |-> tm.quantiles_arg, include_history |-> tm.include_history]
       IN  tm' = [tm EXCEPT !.predict_calls = @ + 1,
                            !.prediction = predict(self, ds.self.frequency)]
    /\ phase' = "predicted"
    /\ UNCHANGED <<chk, params, ds, future, aligned>>

\* trained_model._round_to_existing_quantiles(sample_forecasts), of a
\* TrainedModel with the quantiles and a QuantileForecast with the keys
RoundToExistingQuantiles ==
    /\ phase = "idle"
    /\ \E quantiles \in QuantileLists, forecast_keys \in ForecastKeys :
         tm' = [NoModel EXCEPT !.quantiles_arg = quantiles,
                               !.predictor.kind = "QuantileForecast",
                               !.predictor.forecast_keys = forecast_keys,
                               !.rounded = round_to_existing_quantiles(
                                               quantiles, [forecast_keys |-> forecast_keys])]
    /\ phase' = "rounded"
    /\ UNCHANGED <<chk, params, ds, future, aligned>>

NextCheck ==
    \/ CheckContinuous
    \/ AssertContinuous

NextBuild ==
    \/ LoadTrainingConfig
    \/ CreateListDataset

NextAlign ==
    \/ CreateTrainDataset
    \/ AddFutureExternalFeatures
    \/ AddFutureExternalFeaturesAgain

\* the time column checks
SpecCheck == Init /\ [][NextCheck]_vars

\* the training recipe: parameters and dataset
SpecBuild == Init /\ [][NextBuild]_vars

\* the prediction recipe: future external features
SpecAlign == Init /\ [][NextAlign]_vars

NextQuantiles == RoundToExistingQuantiles

NextPredict ==
    \/ CreateForecastDataset
    \/ ExtendWithFutureFeatures
    \/ ConstructTrainedModel
    \/ Predict

\* the resolution of the quantiles
SpecQuantiles == Init /\ [][NextQuantiles]_vars

\* the prediction recipe: dataset, TrainedModel, predict()
SpecPredict == Init /\ [][NextPredict]_vars

----------------------------------------------------------------------------
(* Vocabulary of the properties, defined on the tables themselves *)

\* the distinct identifier combinations of a table
KeysOf(table, names) ==
    {[i \in 1..Len(names) |-> table[r][names[i]]] : r \in 1..Len(table)}

\* the rows of a table with a given identifier combination
RowsOfKey(table, names, key) ==
    {r \in 1..Len(table) : \A i \in 1..Len(names) : table[r][names[i]] = key[i]}

\* the elements of a set of row indexes, in table order
InTableOrder(S) ==
    [j \in 1..Cardinality(S) |-> CHOOSE r \in S : Cardinality({q \in S : q < r}) = j - 1]

\* the series of the dataset: one set of rows per group, or the whole table
SeriesOf(table, names) ==
    IF Len(names) = 0 THEN {1..Len(table)}
    ELSE {RowsOfKey(table, names, key) : key \in KeysOf(table, names)}

ColumnOf(rows, src, c) == [j \in 1..Len(rows) |-> Cell(src, c, rows[j])]

LexLeq(a, b) == a = b \/ LexLess(a, b)

FirstKey(table, names) ==
    CHOOSE k \in KeysOf(table, names) : \A o \in KeysOf(table, names) : LexLeq(k, o)

Built == phase = "built"

BuiltOk == phase = "built" /\ ds.status = "ok"

----------------------------------------------------------------------------
(* C1: create_list_dataset returns one record per (identifier group, target
   column) pair and no others: G*T records for G identifier combinations and
   T target columns, each target column naming G of them; with no identifier
   columns T records, one per target column in order, none with an
   identifiers key. *)
C1_OneRecordPerGroupAndTarget ==
    BuiltOk =>
        LET names   == ds.self.timeseries_identifiers_names
            targets == ds.self.target_columns_names
            G       == Cardinality(KeysOf(ds.table, names))
        IN  IF Len(names) > 0
            THEN /\ Len(ds.records) = G * Len(targets)
                 /\ \A c \in 1..Len(targets) :
                       Cardinality({i \in 1..Len(ds.records) :
                                      ds.records[i].target_name = targets[c]}) = G
                 /\ \A i \in 1..Len(ds.records) : ds.records[i].target_name \in Range(targets)
            ELSE /\ Len(ds.records) = Len(targets)
                 /\ \A i \in 1..Len(ds.records) :
                       /\ ds.records[i].target_name = targets[i]
                       /\ "identifiers" \notin DOMAIN ds.records[i]

C1_Witness ==
    /\ BuiltOk
    /\ Len(ds.self.timeseries_identifiers_names) > 0
    /\ Cardinality(KeysOf(ds.table, ds.self.timeseries_identifiers_names)) = 2
    /\ Len(ds.self.target_columns_names) = 2
    /\ Len(ds.records) = 4

(* C2: with identifier columns, the first group visited (the one with the
   least key) fixes the start date and the number of periods: if a later
   group starts at another timestamp or has another row count the build
   fails with the time continuity error and returns no record; so the
   records of a returned list all have the same start and the same length. *)
C2_GroupsAlignedWithFirst ==
    (Built /\ Len(ds.self.timeseries_identifiers_names) > 0 /\ Len(ds.table) > 0) =>
        LET names == ds.self.timeseries_identifiers_names
            first == InTableOrder(RowsOfKey(ds.table, names, FirstKey(ds.table, names)))
            misaligned ==
                \E key \in KeysOf(ds.table, names) :
                    LET rows == InTableOrder(RowsOfKey(ds.table, names, key))
                    IN  \/ ds.table[rows[1]].t # ds.table[first[1]].t
                        \/ Len(rows) # Len(first)
        IN  /\ misaligned => (ds.status = "TimeContinuityError" /\ ds.records = <<>>)
            /\ ds.status = "ok" =>
                  \A i \in 1..Len(ds.records) :
                      /\ ds.records[i].start = ds.table[first[1]].t
                      /\ Len(ds.records[i].target)
                            = Max(Len(first) - (IF ds.cut_length.some THEN ds.cut_length.v ELSE 0), 0)

C2_Witness ==
    /\ Built
    /\ Len(ds.self.timeseries_identifiers_names) > 0
    /\ Len(ds.self.target_columns_names) > 0
    /\ ds.status = "TimeContinuityError"
    /\ LET names == ds.self.timeseries_identifiers_names
       IN  /\ \A key \in KeysOf(ds.table, names) :
                 assert_time_column_valid(
                     TimesOf(ds.table, InTableOrder(RowsOfKey(ds.table, names, key))),
                     ds.self.frequency, None, None)
           /\ \E key \in KeysOf(ds.table, names) :
                 Cardinality(RowsOfKey(ds.table, names, key))
                     # Cardinality(RowsOfKey(ds.table, names, FirstKey(ds.table, names)))

(* C3: whenever the identifier column list is not empty, every record of a
   returned list has an identifiers mapping whose keys are the identifier
   columns, in order, and whose values are those of one group of the table,
   whatever the values are. *)
C3_IdentifiersAlwaysPresent ==
    (BuiltOk /\ Len(ds.self.timeseries_identifiers_names) > 0) =>
        LET names == ds.self.timeseries_identifiers_names
        IN  \A i \in 1..Len(ds.records) :
                /\ "identifiers" \in DOMAIN ds.records[i]
                /\ Len(ds.records[i].identifiers) = Len(names)
                /\ \A k \in 1..Len(names) : ds.records[i].identifiers[k][1] = names[k]
                /\ [k \in 1..Len(names) |-> ds.records[i].identifiers[k][2]]
                       \in KeysOf(ds.table, names)

(* C4: for series of n rows and a cut_length k with 1 <= k <= n, each series
   and target column has a record whose target is the first n-k values of
   the column, in order, and whose external features, if any, are the first
   n-k values of each feature column; k = n gives empty targets and no
   exception.  With cut_length None or 0 the target has all n values. *)
C4_CutRemovesLastSteps ==
    Built =>
        /\ (Len(ds.table) > 0) => ds.status \in {"ok", "TimeContinuityError"}
        /\ ds.status = "ok" =>
             \A series \in SeriesOf(ds.table, ds.self.timeseries_identifiers_names) :
                LET rows == InTableOrder(series)
                    n    == Len(rows)
                    k    == IF ds.cut_length.some THEN ds.cut_length.v ELSE 0
                    feats == ds.self.external_features_columns_names
                IN  k <= n =>
                      \A c \in Range(ds.self.target_columns_names) :
                        \E i \in 1..Len(ds.records) :
                            /\ ds.records[i].target_name = c
                            /\ ds.records[i].target = SubSeq(ColumnOf(rows, "train", c), 1, n - k)
                            /\ Len(feats) > 0 =>
                                 /\ Len(ds.records[i].feat_dynamic_real) = Len(feats)
                                 /\ \A f \in 1..Len(feats) :
                                       ds.records[i].feat_dynamic_real[f]
                                           = SubSeq(ColumnOf(rows, "train", feats[f]), 1, n - k)

C4_Witness ==
    /\ BuiltOk
    /\ ds.cut_length.some
    /\ Len(ds.table) > 1
    /\ ds.cut_length.v = Len(ds.table)
    /\ Len(ds.self.timeseries_identifiers_names) = 0
    /\ Len(ds.self.external_features_columns_names) > 0
    /\ Len(ds.records) > 0
    /\ \A i \in 1..Len(ds.records) :
          ds.records[i].target = <<>> /\ ds.records[i].feat_dynamic_real = << <<>> >>

(* C5 as stated: with an empty target column list the build (here of a table
   that has rows) fails with a validation error before any grouping or time
   grid validation, and never returns a record list. *)
C5_BuildRejectsNoTargets ==
    (Built /\ Len(ds.self.target_columns_names) = 0 /\ Len(ds.table) > 0) =>
        /\ ds.status # "ok"
        /\ ds.validated = 0

(* C5 amended: an empty target column list is refused by load_training_config
   with PluginParamValidationError, so the parameters it returns always name
   a target column.  create_list_dataset does not check the target columns:
   with an empty list it still validates the time grid of the table or of
   each of its groups, and returns an empty record list when the validation
   passes. *)
C5_ConfigRejectsNoTargets ==
    /\ (phase = "loaded" /\ params.config_targets = <<>>) =>
          /\ params.result.error = "PluginParamValidationError"
          /\ params.result.message \in {"Invalid time column selection",
                                        "Invalid target column(s) selection"}
    /\ (phase = "loaded" /\ params.result.error = "none") =>
          /\ Len(params.result.target_columns_names) > 0
          /\ params.result.target_columns_names = params.config_targets
    /\ (Built /\ Len(ds.self.target_columns_names) = 0) =>
          /\ ds.records = <<>>
          /\ ds.status \in {"ok", "TimeContinuityError"}
          /\ ds.validated > 0 <=>
                (Len(ds.self.timeseries_identifiers_names) = 0 \/ Len(ds.table) > 0)

C5_Witness ==
    /\ phase = "loaded"
    /\ params.config_targets = <<>>
    /\ params.result.error = "PluginParamValidationError"
    /\ params.result.message = "Invalid target column(s) selection"

----------------------------------------------------------------------------
(* Regular grids and their perturbations *)

\* g is the regular grid of its length stepping from its first timestamp,
\* which is a period end of the unit
IsRegularGrid(g, frequency) ==
    /\ Len(g) >= 1
    /\ g[1] % UnitLen(frequency.unit) = 0
    /\ \A i \in 1..(Len(g) - 1) : g[i + 1] = g[i] + Stride(frequency)

\* the regular grids a column of the model can be a one-timestamp
\* perturbation of: those of at most MaxCol + 1 timestamps that start at
\* most one step before tick 0
RegularGrids(frequency) ==
    {g \in {[i \in 1..n |-> s + (i - 1) * Stride(frequency)] :
                s \in (0 - Stride(frequency))..MaxWall, n \in 1..(MaxCol + 1)} :
        IsRegularGrid(g, frequency)}

RemoveAt(g, i) == SubSeq(g, 1, i - 1) \o SubSeq(g, i + 1, Len(g))

DuplicateAt(g, i) == SubSeq(g, 1, i) \o SubSeq(g, i, Len(g))

\* w is g with one timestamp moved to another tick
IsShiftOf(w, g) ==
    /\ Len(w) = Len(g)
    /\ \E i \in 1..Len(g) : w[i] # g[i] /\ \A j \in 1..Len(g) : j # i => w[j] = g[j]

IsDuplicateOf(w, g) == \E i \in 1..Len(g) : w = DuplicateAt(g, i)

IsInteriorDropOf(w, g) == \E i \in 2..(Len(g) - 1) : w = RemoveAt(g, i)

IsEndDropOf(w, g) == Len(g) >= 2 /\ (w = RemoveAt(g, 1) \/ w = RemoveAt(g, Len(g)))

IsDropOf(w, g) == \E i \in 1..Len(g) : w = RemoveAt(g, i)

Checked == phase \in {"checked", "asserted"}

ChkFrequency == FormatFrequency(chk.step, chk.unit)

\* the check returned False, or the assertion raised its ValueError
ChkRejected ==
    \/ phase = "checked" /\ chk.result = "irregular"
    \/ phase = "asserted" /\ chk.raised = "ValueError"

\* the check returned True, or the assertion returned
ChkAccepted ==
    \/ phase = "checked" /\ chk.result = "continuous"
    \/ phase = "asserted" /\ chk.raised = "none"

(* C6 as stated: the time grid check rejects every sequence obtained from a
   regular grid of the frequency by shifting, duplicating or dropping one
   timestamp, at any position, the first and the last included. *)
C6_RejectsEveryPerturbation ==
    Checked =>
        \A g \in RegularGrids(ChkFrequency) :
            (IsShiftOf(chk.column.walls, g) \/ IsDuplicateOf(chk.column.walls, g)
                \/ IsDropOf(chk.column.walls, g)) => ~ChkAccepted

(* C6 amended: the time grid check rejects every sequence obtained from a
   regular grid of the frequency by duplicating one timestamp, by dropping
   one timestamp that is neither the first nor the last, or, for a grid of
   two timestamps or more, by shifting one timestamp.  Dropping the first or
   the last timestamp of a grid of two or more leaves a shorter regular
   grid, which is accepted. *)
C6_RejectsInnerPerturbation ==
    Checked =>
        \A g \in RegularGrids(ChkFrequency) :
            /\ (Len(g) >= 2 /\ IsShiftOf(chk.column.walls, g)) => ChkRejected
            /\ IsDuplicateOf(chk.column.walls, g) => ChkRejected
            /\ IsInteriorDropOf(chk.column.walls, g) => ChkRejected
            /\ IsEndDropOf(chk.column.walls, g) => ChkAccepted

C6_Witness ==
    /\ phase = "asserted"
    /\ chk.unit = "M"
    /\ chk.raised = "ValueError"
    /\ \E g \in RegularGrids(ChkFrequency) : IsInteriorDropOf(chk.column.walls, g)

(* C7: the time grid check is pure validation: after it returns or raises,
   the time column of the table passed in is what it was before the call,
   in values and in representation. *)
C7_CheckLeavesTableUnchanged ==
    (Checked /\ Len(chk.column.walls) > 0) => chk.after = chk.column

----------------------------------------------------------------------------
(* Vocabulary of the properties of add_future_external_features *)

Aligned == phase = "aligned"

AlignedOk == phase = "aligned" /\ aligned.status = "ok"

\* the rows of the future table that match the identifiers of a record: all
\* of them when the record has no identifiers
MatchingRows(record) ==
    IF "identifiers" \in DOMAIN record
    THEN {r \in 1..Len(future.table) :
            \A k \in 1..Len(record.identifiers) :
                future.table[r][record.identifiers[k][1]] = record.identifiers[k][2]}
    ELSE 1..Len(future.table)

\* the row of a set of future rows with exactly j earlier rows in the set
RowAtRank(rows, j) ==
    CHOOSE r \in rows :
        Cardinality({q \in rows : future.table[q].t < future.table[r].t}) = j

\* the rows have distinct timestamps that form a regular grid of the frequency
SliceRegular(rows, frequency) ==
    \A r \in rows :
        /\ future.table[r].t % UnitLen(frequency.unit) = 0
        /\ \E j \in 0..(Cardinality(rows) - 1) :
              /\ Cardinality({q \in rows : future.table[q].t < future.table[r].t}) = j
              /\ \A q \in rows :
                    future.table[r].t >= future.table[q].t
                        => (future.table[r].t - future.table[q].t) % Stride(frequency) = 0
              /\ \A q \in rows : q # r => future.table[q].t # future.table[r].t
              /\ \E q \in rows : future.table[r].t = future.table[q].t + j * Stride(frequency)

(* C8: add_future_external_features leaves the records of the collection
   passed in as they were and returns another collection, whose records have
   external features of the original length plus prediction_length; a second
   call with the same arguments returns the same records as the first. *)
C8_InputUnchangedAndIdempotent ==
    Aligned =>
        /\ ds.records = ds.built
        /\ aligned.status = "ok" =>
              /\ Len(aligned.records) = Len(ds.built)
              /\ \A i \in 1..Len(aligned.records) :
                    \A f \in 1..Len(ds.built[i].feat_dynamic_real) :
                        Len(aligned.records[i].feat_dynamic_real[f])
                            = Len(ds.built[i].feat_dynamic_real[f]) + future.prediction_length
        /\ aligned.calls = 2 =>
              /\ aligned.status = aligned.first_status
              /\ aligned.records = aligned.first

C8_Witness ==
    /\ AlignedOk
    /\ aligned.calls = 2
    /\ Len(aligned.records) >= 2
    /\ aligned.records # ds.records
    /\ aligned.records = aligned.first

(* C9: on success, record i of the returned collection has the external
   features of record i of the input followed, along the time axis, by the
   prediction_length future rows that match the identifiers of record i (all
   rows of the future table for a record without identifiers), in time
   order; its other keys are those of input record i, unchanged. *)
C9_AppendsMatchingFutureRows ==
    AlignedOk =>
        /\ Len(aligned.records) = Len(ds.built)
        /\ \A i \in 1..Len(aligned.records) :
              LET old  == ds.built[i]
                  new  == aligned.records[i]
                  rows == MatchingRows(old)
                  pl   == future.prediction_length
              IN  /\ Cardinality(rows) = pl
                  /\ DOMAIN new = DOMAIN old
                  /\ \A k \in DOMAIN old \ {"feat_dynamic_real"} : new[k] = old[k]
                  /\ Len(new.feat_dynamic_real) = Len(old.feat_dynamic_real)
                  /\ \A f \in 1..Len(old.feat_dynamic_real) :
                        LET n == Len(old.feat_dynamic_real[f])
                        IN  /\ Len(new.feat_dynamic_real[f]) = n + pl
                            /\ SubSeq(new.feat_dynamic_real[f], 1, n) = old.feat_dynamic_real[f]
                            /\ \A j \in 1..pl :
                                  new.feat_dynamic_real[f][n + j]
                                      = Cell("future", old.feat_dynamic_real_columns_names[f],
                                             RowAtRank(rows, j - 1))

C9_Witness ==
    /\ AlignedOk
    /\ \E i \in 1..Len(aligned.records) :
          /\ "identifiers" \in DOMAIN aligned.records[i]
          /\ Len(aligned.records[i].identifiers) = 2
          /\ Cardinality(MatchingRows(ds.built[i])) < Len(future.table)
          /\ Len(aligned.records[i].feat_dynamic_real[1]) > future.prediction_length

(* C10 as stated: whenever the number of future rows matching some record
   differs from prediction_length, the call fails with the horizon mismatch
   error and returns no collection. *)
C10_MismatchAlwaysHorizonError ==
    (Aligned /\ \E i \in 1..Len(ds.built) :
                    Cardinality(MatchingRows(ds.built[i])) # future.prediction_length) =>
        /\ aligned.status = "HorizonMismatch"
        /\ aligned.records = <<>>

(* C10 amended: whenever the number of future rows matching some record
   differs from prediction_length (no row matching included), the call
   returns no collection.  It fails at the first record whose matching rows
   do not form a regular time grid or are not prediction_length many: with
   the time continuity error of the normalization step in the first case,
   with the horizon mismatch error otherwise. *)
C10_MismatchFails ==
    Aligned =>
        LET bad(i) == \/ ~SliceRegular(MatchingRows(ds.built[i]), ds.self.frequency)
                      \/ Cardinality(MatchingRows(ds.built[i])) # future.prediction_length
        IN  /\ (\E i \in 1..Len(ds.built) :
                    Cardinality(MatchingRows(ds.built[i])) # future.prediction_length) =>
                  /\ aligned.status \in {"HorizonMismatch", "TimeContinuityError"}
                  /\ aligned.records = <<>>
            /\ \A i \in 1..Len(ds.built) :
                  (bad(i) /\ \A h \in 1..(i - 1) : ~bad(h)) =>
                      aligned.status =
                          IF SliceRegular(MatchingRows(ds.built[i]), ds.self.frequency)
                          THEN "HorizonMismatch" ELSE "TimeContinuityError"

C10_Witness ==
    /\ Aligned
    /\ aligned.status = "HorizonMismatch"
    /\ aligned.records = <<>>
    /\ Len(future.table) = future.prediction_length
    /\ \E i \in 1..Len(ds.built) :
          /\ "identifiers" \in DOMAIN ds.built[i]
          /\ MatchingRows(ds.built[i]) = {}

----------------------------------------------------------------------------
(* Vocabulary of the properties of the TrainedModel *)

Constructed == phase \in {"constructed", "predicted"}

Predicted == phase = "predicted"

\* the quantiles predict() worked with
Resolved == tm.prediction.quantiles

\* the dates of the forecast of timeseries i: the steps that follow its target
HorizonDates(i, steps) ==
    LET n == Len(ds.records[i].target)
        grid == DateRangePeriods(ds.records[i].start, n + steps, ds.self.frequency)
    IN  SubSeq(grid, n + 1, n + steps)

\* the trajectory of the quantile at position q, of forecast i
Trajectory(i, q) == [k \in 1..tm.prediction_length |-> <<"forecast", i, Resolved[q], k>>]

LabelOf(quantile, target_name) ==
    <<CASE quantile = MEDIAN -> "forecast"
        [] quantile < MEDIAN -> "forecast_lower"
        [] quantile > MEDIAN -> "forecast_upper",
      target_name>>

\* the timeseries of the dataset filed under a key, in order
RECURSIVE RecordsOfKey(_, _)
RecordsOfKey(key, i) ==
    IF i > Len(ds.records) THEN <<>>
    ELSE (IF IdentifierKey(ds.records[i]) = key THEN <<i>> ELSE <<>>) \o RecordsOfKey(key, i + 1)

\* the trajectories expected under a key: for each of its timeseries in
\* order, one per resolved quantile in order
RECURSIVE ExpectedSeries(_)
ExpectedSeries(records) ==
    IF Len(records) = 0 THEN <<>>
    ELSE [q \in 1..Len(Resolved) |->
            [columns |-> <<LabelOf(Resolved[q], ds.records[Head(records)].target_name)>>,
             index   |-> HorizonDates(Head(records), tm.prediction_length),
             cols    |-> <<Trajectory(Head(records), q)>>]]
         \o ExpectedSeries(Tail(records))

----------------------------------------------------------------------------
\* C11: a TrainedModel configured with a prediction_length greater than the
\* predictor's is refused by the constructor with the ValueError that names
\* the predictor's prediction_length, and predictor.predict is never called
\* for it; a constructed TrainedModel has an effective prediction_length of
\* at most the predictor's (the predictor's own for prediction_length = -1)
C11_HorizonCheckedAtConstruction ==
    Constructed =>
        /\ tm.prediction_length_arg > tm.predictor.prediction_length =>
              /\ tm.raised = "ValueError"
              /\ tm.horizon_named = tm.predictor.prediction_length
              /\ tm.predict_calls = 0
              /\ phase # "predicted"
        /\ tm.raised = "none" =>
              /\ tm.prediction_length <= tm.predictor.prediction_length
              /\ tm.prediction_length_arg = -1 => tm.prediction_length = tm.predictor.prediction_length
              /\ tm.prediction_length_arg # -1 => tm.prediction_length = tm.prediction_length_arg

C11_Witness ==
    /\ phase = "constructed"
    /\ tm.prediction_length_arg = tm.predictor.prediction_length + 1
    /\ tm.raised = "ValueError"
    /\ Len(ds.records) > 0

----------------------------------------------------------------------------
\* C12: every requested quantile is replaced by an available quantile at
\* the smallest distance from it (itself when it is available), the result
\* has one entry per requested quantile in the same order, and it is
\* determined by the two lists: on a tie it is the first of the closest
\* quantiles in the order of the available list
C12_RoundsToClosestAvailable ==
    phase = "rounded" =>
        LET requested == tm.quantiles_arg
            available == tm.predictor.forecast_keys
            dist(a, q) == IF a < q THEN q - a ELSE a - q
        IN  /\ Len(tm.rounded) = Len(requested)
            /\ \A i \in 1..Len(requested) :
                 /\ tm.rounded[i] \in Range(available)
                 /\ \A a \in Range(available) :
                        dist(tm.rounded[i], requested[i]) <= dist(a, requested[i])
                 /\ requested[i] \in Range(available) => tm.rounded[i] = requested[i]
                 /\ \A j, k \in 1..Len(available) :
                        (/\ available[k] = tm.rounded[i]
                         /\ dist(available[j], requested[i]) = dist(tm.rounded[i], requested[i]))
                        => k <= j

\* an exact tie, resolved to the later quantile because it comes first in
\* the available list
C12_Witness ==
    /\ phase = "rounded"
    /\ tm.predictor.forecast_keys = <<9, 1>>
    /\ tm.quantiles_arg = <<5, 3, 9>>
    /\ tm.rounded = <<9, 1, 9>>

----------------------------------------------------------------------------
\* C13: _compute_forecasts_timeseries files, under the identifier key of
\* each timeseries i of the dataset, one trajectory per resolved quantile,
\* in order: the first prediction_length steps of the quantile of forecast
\* i, named forecast_<target_name of i> for the median, forecast_lower_ for
\* a quantile below it, forecast_upper_ for one above; nothing else is filed
C13_OneTrajectoryPerForecastAndQuantile ==
    Predicted =>
        LET dict == tm.prediction.forecasts_timeseries
        IN  /\ tm.predictor.kind = "SampleForecast" => Resolved = tm.quantiles_arg
            /\ {dict[e].key : e \in 1..Len(dict)}
                  = {IdentifierKey(ds.records[i]) : i \in 1..Len(ds.records)}
            /\ \A e, f \in 1..Len(dict) : dict[e].key = dict[f].key => e = f
            /\ \A e \in 1..Len(dict) :
                  dict[e].list = ExpectedSeries(RecordsOfKey(dict[e].key, 1))
            /\ \A e \in 1..Len(dict) : \A s \in 1..Len(dict[e].list) :
                  Len(dict[e].list[s].cols[1]) <= tm.prediction_length

\* two groups and the quantiles 0.1, 0.5, 0.9: lower, median and upper
\* trajectories of each group under its own key, cut from two steps to one
C13_Witness ==
    /\ Predicted
    /\ tm.predictor.kind = "SampleForecast"
    /\ tm.predictor.prediction_length = 2
    /\ tm.prediction_length = 1
    /\ Resolved = <<1, 5, 9>>
    /\ Len(tm.prediction.forecasts_timeseries) = 2
    /\ \A e \in 1..2 :
          /\ Len(tm.prediction.forecasts_timeseries[e].list) = 3
          /\ [s \in 1..3 |-> tm.prediction.forecasts_timeseries[e].list[s].columns[1]]
                = <<<<"forecast_lower", "sales">>, <<"forecast", "sales">>, <<"forecast_upper", "sales">>>>

----------------------------------------------------------------------------
(* Vocabulary of the properties of the per-identifier tables *)

\* the positions of the resolved quantiles below (side "lower") or above
\* (side "upper") the median, in the order they are processed
SameSide(side) ==
    SelectSeq([q \in 1..Len(Resolved) |-> q],
              LAMBDA q : IF side = "lower" THEN Resolved[q] < MEDIAN ELSE Resolved[q] > MEDIAN)

SideName(side, target_name) ==
    <<IF side = "lower" THEN "forecast_lower" ELSE "forecast_upper", target_name>>

\* the positions of the columns of a name in a table, in order
ColumnsNamed(df, name) ==
    SelectSeq([c \in 1..Len(df.columns) |-> c], LAMBDA c : df.columns[c] = name)

\* the values of the column at a position, by row
ValuesAt(df, c) == [r \in 1..Len(df.rows) |-> df.rows[r][c]]

\* the per-identifier table of timeseries i
TableOf(i) ==
    tm.prediction.multiple_df[
        CHOOSE e \in 1..Len(tm.prediction.forecasts_timeseries) :
            tm.prediction.forecasts_timeseries[e].key = IdentifierKey(ds.records[i])]

----------------------------------------------------------------------------
\* C16 (as claimed): when two or more resolved quantiles are on the same
\* side of the median, the per-identifier table has exactly one column of
\* the shared name, with the values of the last of these quantiles
C16_SameSideKeepsLastOnly ==
    Predicted =>
        \A i \in 1..Len(ds.records) : \A side \in {"lower", "upper"} :
            LET qs == SameSide(side)
                named == ColumnsNamed(TableOf(i), SideName(side, ds.records[i].target_name))
            IN  Len(qs) >= 2 =>
                    /\ Len(named) = 1
                    /\ ValuesAt(TableOf(i), named[1]) = Trajectory(i, qs[Len(qs)])

\* C16 (amended): the per-identifier table has one column per resolved
\* quantile of the side, all of the shared name, in the order the
\* quantiles are processed, each with the values of its own quantile;
\* no trajectory is overwritten
C16_SameSideKeepsEveryTrajectory ==
    Predicted =>
        \A i \in 1..Len(ds.records) : \A side \in {"lower", "upper"} :
            LET qs == SameSide(side)
                named == ColumnsNamed(TableOf(i), SideName(side, ds.records[i].target_name))
            IN  /\ Len(named) = Len(qs)
                /\ \A j \in 1..Len(qs) : ValuesAt(TableOf(i), named[j]) = Trajectory(i, qs[j])

\* the quantiles 0.3 and 0.1: two columns forecast_lower_sales, the first
\* with the trajectory of 0.3, the second with that of 0.1
C16_Witness ==
    /\ Predicted
    /\ tm.predictor.kind = "SampleForecast"
    /\ Resolved = <<3, 1>>
    /\ Len(ds.records) = 1
    /\ tm.prediction_length = 2
    /\ tm.prediction.multiple_df[1].columns
          = <<<<"index">>, <<"forecast_lower", "sales">>, <<"forecast_lower", "sales">>>>
    /\ ValuesAt(tm.prediction.multiple_df[1], 2) = <<<<"forecast", 1, 3, 1>>, <<"forecast", 1, 3, 2>>>>
    /\ ValuesAt(tm.prediction.multiple_df[1], 3) = <<<<"forecast", 1, 1, 1>>, <<"forecast", 1, 1, 2>>>>

----------------------------------------------------------------------------
(* Vocabulary of the properties of the output table *)

Out == tm.prediction.forecasts_df

\* predict() returned a table that includes the history
WithHistory == Predicted /\ tm.include_history /\ tm.prediction.raised = "none"

\* the identifier groups of the training table (one group without
\* identifier columns)
GroupKeys ==
    IF Len(ds.self.timeseries_identifiers_names) = 0 THEN {<<>>}
    ELSE KeysOf(ds.table, ds.self.timeseries_identifiers_names)

\* the rows of the training table of a group, in table order
GroupRows(key) ==
    InTableOrder(RowsOfKey(ds.table, ds.self.timeseries_identifiers_names, key))

\* the rows of the output table of a group, in order: those that carry
\* the identifier values of the group in the identifier columns that the
\* output table has
OutRowsOf(key) ==
    SelectSeq([r \in 1..Len(Out.rows) |-> r],
              LAMBDA r : \A i \in 1..Len(ds.self.timeseries_identifiers_names) :
                  HasColumn(Out, ColumnName(ds.self.timeseries_identifiers_names[i])) =>
                      Out.rows[r][ColumnAt(Out, ColumnName(ds.self.timeseries_identifiers_names[i]))]
                          = IdCell(key[i]))

\* the timestamps of the output of a group: those of its rows in the
\* training table, then the prediction_length steps that follow
OutGrid(key) ==
    DateRangePeriods(ds.table[GroupRows(key)[1]].t,
                     Len(GroupRows(key)) + tm.prediction_length, ds.self.frequency)

\* the timeseries of the dataset made of a target column of a group
RecordOf(key, target_name) ==
    CHOOSE i \in 1..Len(ds.records) :
        /\ ds.records[i].target_name = target_name
        /\ ds.records[i].target[1] = Cell("train", target_name, GroupRows(key)[1])

IsForecastColumn(name) ==
    Len(name) = 2 /\ name[1] \in {"forecast", "forecast_lower", "forecast_upper"}

OriginOf(r) == Out.rows[r][ColumnAt(Out, ColumnName("row_origin"))]

TimeOf(r) == Out.rows[r][ColumnAt(Out, ColumnName(TIME_COLUMN))]

----------------------------------------------------------------------------
\* C14: with include_history, the output table has, for every identifier
\* group with n rows in the training table, exactly n + prediction_length
\* rows: the first n at the timestamps of the group, with the original
\* target values and the marker "history", the next prediction_length at
\* the timestamps that follow, with the forecast values of the group and
\* the forecast marker
C14_HistoryThenForecastRows ==
    WithHistory =>
        \A key \in GroupKeys :
            LET rows == GroupRows(key)
                n == Len(rows)
                out == OutRowsOf(key)
            IN  /\ Len(out) = n + tm.prediction_length
                /\ \A j \in 1..Len(out) : j <= n + tm.prediction_length =>
                      TimeOf(out[j]) = TimeCell(OutGrid(key)[j])
                /\ \A j \in 1..Len(out) : j <= n =>
                      /\ OriginOf(out[j]) = <<"origin", "history">>
                      /\ \A c \in 1..Len(ds.self.target_columns_names) :
                            LET t == ds.self.target_columns_names[c]
                            IN  /\ HasColumn(Out, ColumnName(t))
                                /\ Out.rows[out[j]][ColumnAt(Out, ColumnName(t))] = Cell("train", t, rows[j])
                /\ \A j \in 1..Len(out) : (n < j /\ j <= n + tm.prediction_length) =>
                      /\ OriginOf(out[j]) = <<"origin", "forecast">>
                      /\ \A c \in 1..Len(Out.columns) : IsForecastColumn(Out.columns[c]) =>
                            \E q \in 1..Len(Resolved) :
                                /\ LabelOf(Resolved[q], Out.columns[c][2]) = Out.columns[c]
                                /\ Out.rows[out[j]][c]
                                      = <<"forecast", RecordOf(key, Out.columns[c][2]), Resolved[q], j - n>>

----------------------------------------------------------------------------
\* C15: building the timeseries of a table (no cut_length) and
\* reconstructing with include_history gives an output table in which,
\* for every identifier group and every target column, the value of the
\* target column at the k-th timestamp of the group is the k-th value of
\* that target in the group, whatever the quantiles, and the value at the
\* prediction_length timestamps that follow is missing
C15_HistoryRoundTrip ==
    WithHistory =>
        \A key \in GroupKeys : \A c \in 1..Len(ds.self.target_columns_names) :
            LET rows == GroupRows(key)
                n == Len(rows)
                t == ds.self.target_columns_names[c]
                at(k) == SelectSeq(OutRowsOf(key), LAMBDA r : TimeOf(r) = TimeCell(OutGrid(key)[k]))
            IN  /\ HasColumn(Out, ColumnName(t))
                /\ \A k \in 1..(n + tm.prediction_length) :
                      /\ Len(at(k)) >= 1
                      /\ \A m \in 1..Len(at(k)) :
                            Out.rows[at(k)[m]][ColumnAt(Out, ColumnName(t))]
                                = IF k <= n THEN Cell("train", t, rows[k]) ELSE NaN

----------------------------------------------------------------------------
\* C17: when assert_continuous_time_column rejects a time column, the
\* message has the period-end sentence exactly when the unit is 'M' or 'Y',
\* and the sentence names the configured unit: 'Month' for 'M', 'Year'
\* for 'Y' (the generic sentence with the frequency code is always there)
C17_PeriodEndNamesConfiguredUnit ==
    (phase = "asserted" /\ chk.raised = "ValueError") =>
        /\ chk.frequency = FormatFrequency(chk.step, chk.unit)
        /\ chk.period_end = (chk.unit \in {"M", "Y"})
        /\ chk.unit = "M" => chk.unit_name = "Month"
        /\ chk.unit = "Y" => chk.unit_name = "Year"

====
